---- MODULE Spec2Model ----
(***************************************************************************)
(* A model of kkangdae-system-monitor: the collector (src/monitor/main.py) *)
(* and the daily report (src/monitor/report.py).                           *)
(*                                                                         *)
(* Conventions for Python values:                                          *)
(*   - a value that may be None is a set with at most one element, {} is   *)
(*     None and {v} is v;                                                  *)
(*   - a dict with fixed keys is a record, a list is a sequence;           *)
(*   - a float percentage is an integer number of percent;                 *)
(*   - a naive or aware datetime is its number of seconds since the start  *)
(*     of day 0 (UTC); an ISO string is a record of its date part, its     *)
(*     time part and its suffix;                                           *)
(*   - JSON text is a tree of tagged records (JNull, JNum, JStr, JArr,     *)
(*     JObj); a line of a file is a sequence of pieces ending in NL.       *)
(***************************************************************************)
EXTENDS Integers, Sequences, FiniteSets, TLC

VARIABLES
    now,        \* the system clock, seconds (time.time(), datetime.utcnow())
    files,      \* the file system: path -> sequence of lines
    pc,         \* position of the collector in run()
    interval, duration, out_dir, cpu_thr, mem_thr, disk_thr, top_n, top_by,
                \* the parameters of run()
    out_path,   \* run(): the log path, {} while unbound
    end_ts,     \* run(): the absolute end time
    m,          \* run(): the sample of the current iteration, {} while unbound
    alert,      \* run(): the verdict, {} while unbound
    stdout,     \* the lines printed by the current call of run()
    started,    \* history: the UTC day on which the current call of run() began
    log0,       \* history: the file system when the current call of run() began
    iters,      \* history: the number of samples taken by the current call
    steps,      \* history: the steps of the current iteration, in order
    written,    \* history: path -> the samples appended, each with the day its run began
    top,        \* get_top_processes harness: call and result
    rep,        \* report.main(): position, input and intermediate results
    cli         \* main.main(): position, arguments, configuration and locals

vars == <<now, files, pc, interval, duration, out_dir, cpu_thr, mem_thr, disk_thr,
          top_n, top_by, out_path, end_ts, m, alert, stdout, started, log0, iters,
          steps, written, top, rep, cli>>

runVars == <<now, files, pc, interval, duration, out_dir, cpu_thr, mem_thr, disk_thr,
             top_n, top_by, out_path, end_ts, m, alert, stdout, started, log0, iters,
             steps, written>>

----------------------------------------------------------------------------
(* Bounds of the model. *)

\* the clock runs from FirstClock to FirstClock + ClockSpan
ClockSpan == 3
\* run() is called with interval in 0..MaxInterval
MaxInterval == 1
\* run() is called with duration in 0..MaxDuration
MaxDuration == 2
\* no more than MaxLines lines are appended to one file
MaxLines == 2
\* get_top_processes is called with n in 0..MaxTopN
MaxTopN == 2
\* the provider enumerates at most MaxProcs processes
MaxProcs == 2
\* a log read by the report has at most MaxRows lines
MaxRows == 3

(* Calendar and defaults. *)
SecondsPerDay == 24 * 60 * 60
\* the UTC offset of Asia/Seoul
KstOffset == 9 * 60 * 60
DefaultCpuThr == 85
DefaultMemThr == 85
DefaultDiskThr == 90
DefaultInterval == 5
DefaultDuration == 30
DefaultTopN == 5

\* two seconds before the first UTC midnight
FirstClock == SecondsPerDay - 2
LastClock == FirstClock + ClockSpan
Days == (FirstClock \div SecondsPerDay)..((LastClock + MaxInterval) \div SecondsPerDay + 1)

None == {}
Some(v) == {v}
Get(opt) == CHOOSE v \in opt : TRUE

Min(a, b) == IF a < b THEN a ELSE b
IsPrefix(s, t) == Len(s) <= Len(t) /\ SubSeq(t, 1, Len(s)) = s
Prefixes(s) == {SubSeq(s, 1, k) : k \in 0..Len(s)}

----------------------------------------------------------------------------
(* Strings and datetimes. *)

\* str.lower() on the strings the model passes as a rank key
Lower(s) == CASE s = "CPU" -> "cpu" [] s = "MEM" -> "mem" [] OTHER -> s

\* datetime.utcnow(): the naive datetime of the clock
Utcnow(clock) == [wall |-> clock, off |-> None]

\* datetime.isoformat(timespec="seconds")
Isoformat(dt) ==
    [date |-> dt.wall \div SecondsPerDay,
     time |-> dt.wall % SecondsPerDay,
     suffix |-> IF dt.off = None THEN ""
                ELSE IF Get(dt.off) = 0 THEN "+00:00" ELSE "+09:00"]

\* datetime.strftime("%Y%m%d")
StrfDateLocal(dt) == (dt.wall + KstOffset) \div SecondsPerDay
StrfDate(dt) == dt.wall \div SecondsPerDay

\* the calendar date an ISO string shows
DateOf(ts) == ts.date

\* datetime.fromisoformat(ts)
Fromisoformat(ts) ==
    [wall |-> ts.date * SecondsPerDay + ts.time,
     off |-> CASE ts.suffix = "" -> None
               [] ts.suffix = "+00:00" -> Some(0)
               [] ts.suffix = "+09:00" -> Some(KstOffset)]

\* report.parse_timestamp_utc
ParseTimestampUtc(ts) ==
    LET bare == IF ts.suffix = "Z" THEN [ts EXCEPT !.suffix = ""] ELSE ts
    IN  [Fromisoformat(bare) EXCEPT !.off = Some(0)]

\* datetime.astimezone(KST) of an aware datetime
AstimezoneKst(dt) == [wall |-> dt.wall - Get(dt.off) + KstOffset, off |-> Some(KstOffset)]

----------------------------------------------------------------------------
(* main.get_top_processes and main.collect_metrics. *)

\* what psutil.process_iter yields: p.info, fields None when access is denied
Infos ==
    {[pid |-> 1, name |-> Some("x"), cpu_percent |-> Some(10), memory_percent |-> Some(30)],
     [pid |-> 2, name |-> Some("x"), cpu_percent |-> Some(30), memory_percent |-> Some(10)],
     [pid |-> 3, name |-> None, cpu_percent |-> None, memory_percent |-> Some(20)],
     [pid |-> 4, name |-> Some("y"), cpu_percent |-> Some(20), memory_percent |-> None]}

RECURSIVE SeqsUpTo(_, _)
SeqsUpTo(S, n) ==
    IF n = 0 THEN {<<>>}
    ELSE LET shorter == SeqsUpTo(S, n - 1)
         IN  shorter \cup {Append(s, x) : s \in shorter, x \in S}

\* x or default
PyOr(opt, falsy, default) ==
    IF opt = None THEN default
    ELSE IF Get(opt) = falsy THEN default ELSE Get(opt)

\* the dict appended to procs, lines 16-20
Snapshot(info) ==
    [pid |-> info.pid,
     name |-> PyOr(info.name, "", "unknown"),
     cpu |-> PyOr(info.cpu_percent, 0, 0),
     mem |-> PyOr(info.memory_percent, 0, 0)]

\* list.sort(key=lambda x: x[key], reverse=True): stable, equal keys keep their order
RECURSIVE SortDesc(_, _)
SortDesc(s, key) ==
    IF Len(s) <= 1 THEN s
    ELSE LET rest == SortDesc(SubSeq(s, 1, Len(s) - 1), key)
             x == s[Len(s)]
             k == Cardinality({i \in DOMAIN rest : rest[i][key] >= x[key]})
         IN  SubSeq(rest, 1, k) \o <<x>> \o SubSeq(rest, k + 1, Len(rest))

\* s[:n]
SliceTo(s, n) ==
    IF n >= 0 THEN SubSeq(s, 1, Min(n, Len(s)))
    ELSE SubSeq(s, 1, IF Len(s) + n > 0 THEN Len(s) + n ELSE 0)

\* the body of the for loop on its first pass, which ends in the return of line 24
FirstPass(procs, info, n, by) ==
    LET appended == Append(procs, Snapshot(info))
        key == IF Lower(by) = "cpu" THEN "cpu" ELSE "mem"
    IN  SliceTo(SortDesc(appended, key), n)

\* get_top_processes: the loop returns in its first pass; with nothing to
\* iterate over the function falls off its end and returns None
GetTopProcesses(iter, n, by) ==
    IF iter = <<>> THEN None ELSE Some(FirstPass(<<>>, iter[1], n, by))

CollectMetrics(clock, cpu, mem, disk, iter, n, by) ==
    [timestamp |-> [Isoformat(Utcnow(clock)) EXCEPT !.suffix = @ \o "Z"],
     cpu_percent |-> cpu,
     mem_percent |-> mem,
     disk_percent |-> disk,
     processes |-> GetTopProcesses(iter, n, by)]

----------------------------------------------------------------------------
(* JSON text: json.dumps of a sample, and json.loads of a line. *)

JNull == [j |-> "null"]
JNum(x) == [j |-> "number", n |-> x]
JStr(x) == [j |-> "string", s |-> x]
JArr(a) == [j |-> "array", a |-> a]
JObj(members) == [j |-> "object", o |-> members]
NL == [j |-> "newline"]

DumpsProcess(p) ==
    JObj(<< <<"pid", JNum(p.pid)>>, <<"name", JStr(p.name)>>,
            <<"cpu", JNum(p.cpu)>>, <<"mem", JNum(p.mem)>> >>)

\* json.dumps(m, ensure_ascii=False): the text of one sample, members in insertion order
JsonDumpsNoneAsEmpty(s) ==
    <<JObj(<< <<"timestamp", JStr(s.timestamp)>>,
              <<"cpu_percent", JNum(s.cpu_percent)>>,
              <<"mem_percent", JNum(s.mem_percent)>>,
              <<"disk_percent", JNum(s.disk_percent)>>,
              <<"processes", IF s.processes = None THEN JArr(<<>>)
                             ELSE JArr([i \in DOMAIN Get(s.processes) |->
                                           DumpsProcess(Get(s.processes)[i])])>> >>)>>
JsonDumps(s) ==
    <<JObj(<< <<"timestamp", JStr(s.timestamp)>>,
              <<"cpu_percent", JNum(s.cpu_percent)>>,
              <<"mem_percent", JNum(s.mem_percent)>>,
              <<"disk_percent", JNum(s.disk_percent)>>,
              <<"processes", IF s.processes = None THEN JNull
                             ELSE JArr([i \in DOMAIN Get(s.processes) |->
                                           DumpsProcess(Get(s.processes)[i])])>> >>)>>

\* the value json.loads gives a JSON value: null is None, an array a list,
\* an object a dict whose later members win
RECURSIVE LoadsValue(_)
LoadsValue(v) ==
    CASE v.j = "null" -> None
      [] v.j = "number" -> v.n
      [] v.j = "string" -> v.s
      [] v.j = "array" -> [i \in DOMAIN v.a |-> LoadsValue(v.a[i])]
      [] v.j = "object" ->
            [k \in {v.o[i][1] : i \in DOMAIN v.o} |->
                LET last == CHOOSE i \in DOMAIN v.o :
                                /\ v.o[i][1] = k
                                /\ \A i2 \in DOMAIN v.o : v.o[i2][1] = k => i2 <= i
                IN  LoadsValue(v.o[last][2])]

\* str.strip() of a line
Strip(line) == SelectSeq(line, LAMBDA piece : piece # NL)

\* json.loads(line) of a line holding one sample; "processes" may be null or a
\* list, so it is read as an optional list
JsonLoads(line) ==
    LET obj == Strip(line)[1]
        d == LoadsValue(obj)
        procs == (CHOOSE i \in DOMAIN obj.o : obj.o[i][1] = "processes")
    IN  [k \in DOMAIN d |->
            IF k = "processes"
            THEN (IF obj.o[procs][2] = JNull THEN None ELSE Some(d[k]))
            ELSE d[k]]

\* report.load_jsonl: the rows of the non-blank lines, in file order
RECURSIVE LoadJsonl(_)
LoadJsonl(content) ==
    IF content = <<>> THEN <<>>
    ELSE IF Strip(content[1]) # <<>>
         THEN <<JsonLoads(content[1])>> \o LoadJsonl(Tail(content))
         ELSE LoadJsonl(Tail(content))

----------------------------------------------------------------------------
(* main.run: the collection loop. *)

OutDirs == {"output", "data"}
Paths == OutDirs \X Days

\* what the provider reads for cpu, mem and disk: no metric, or one metric
\* alone, above the thresholds, and metrics equal to them
Readings == {<<80, 80, 80>>, <<85, 85, 90>>, <<90, 80, 80>>, <<80, 90, 85>>, <<85, 80, 95>>}
\* the thresholds run() is called with
Thresholds == {85, 90} \X {85, 90} \X {85, 90}
\* what process_iter enumerates during a run
RunIters == {<<>>, <<CHOOSE i \in Infos : i.pid = 1, CHOOSE i \in Infos : i.pid = 2>>}
RankKeys == {"cpu", "mem"}

\* the number of lines in the file system
RECURSIVE SumLen(_, _)
SumLen(fs, ps) ==
    IF ps = {} THEN 0
    ELSE LET p == CHOOSE q \in ps : TRUE
         IN  Len(fs[p]) + SumLen(fs, ps \ {p})
TotalLines(fs) == SumLen(fs, DOMAIN fs)

\* out_dir / f"metrics-{date}.jsonl", line 58
OutPath(dir, date) == <<dir, date>>

\* the loop condition of line 61
LoopCondAfter(clock, end) == clock <= end
LoopCond(clock, end) == clock < end

\* open("a") and write of one line, lines 65-66
WriteTruncating(content, line) == <<line>>
AppendLine(content, line) == Append(content, line)

\* the line written for a sample, line 66
LineOf(sample) == JsonDumps(sample) \o <<NL>>

\* the verdict of lines 69-73
AlertOrEqual(sample, cpu, mem, disk) ==
    \/ sample.cpu_percent >= cpu
    \/ sample.mem_percent >= mem
    \/ sample.disk_percent >= disk
Alert(sample, cpu, mem, disk) ==
    \/ sample.cpu_percent > cpu
    \/ sample.mem_percent > mem
    \/ sample.disk_percent > disk

\* the statement that follows each statement of the loop body, lines 62-80
SuccessorEvaluateFirst(label) ==
    CASE label = "sample" -> "evaluate"
      [] label = "evaluate" -> "persist"
      [] label = "persist" -> "report"
      [] label = "report" -> "sleep"
      [] label = "sleep" -> "check"
Successor(label) ==
    CASE label = "sample" -> "persist"
      [] label = "persist" -> "evaluate"
      [] label = "evaluate" -> "report"
      [] label = "report" -> "sleep"
      [] label = "sleep" -> "check"

\* the entry of run() with its arguments bound: lines 45-58, mkdir, date and out_path
Enter(i, d, dir, c, mm, k, n, by) ==
    /\ interval' = i
    /\ duration' = d
    /\ out_dir' = dir
    /\ cpu_thr' = c
    /\ mem_thr' = mm
    /\ disk_thr' = k
    /\ top_n' = n
    /\ top_by' = by
    /\ out_path' = Some(OutPath(dir, StrfDate(Utcnow(now))))
    /\ started' = now \div SecondsPerDay
    /\ log0' = files
    /\ iters' = 0
    /\ steps' = <<>>
    /\ m' = None
    /\ alert' = None
    /\ stdout' = <<>>
    /\ pc' = "end_ts"
    /\ UNCHANGED <<now, files, end_ts, written>>

\* a call of run() with arguments of the given sets
RunCallOf(Is, Ds, Ts, Ns, Bys) ==
    \E i \in Is, d \in Ds, t \in Ts, n \in Ns, by \in Bys :
        Enter(i, d, "output", t[1], t[2], t[3], n, by)

\* run() is called, any number of times, for any interval and duration
RunCall ==
    /\ pc \in {"idle", "returned"}
    /\ RunCallOf(0..MaxInterval, 0..MaxDuration, {<<DefaultCpuThr, DefaultMemThr, DefaultDiskThr>>},
                 {1}, {"cpu"})
    /\ UNCHANGED <<top, rep, cli>>

\* run() is called once, for one-second ticks, with any thresholds and ranking
RunOnce ==
    /\ pc = "idle"
    /\ RunCallOf({1}, {MaxLines}, Thresholds, 0..1, RankKeys)
    /\ UNCHANGED <<top, rep, cli>>

\* line 60
ComputeEnd ==
    /\ pc = "end_ts"
    /\ end_ts' = now + duration
    /\ pc' = "check"
    /\ UNCHANGED <<now, files, interval, duration, out_dir, cpu_thr, mem_thr, disk_thr,
                   top_n, top_by, out_path, m, alert, stdout, started, log0, iters,
                   steps, written, top, rep, cli>>

\* line 61
Check ==
    /\ pc = "check"
    /\ pc' = IF LoopCond(now, end_ts) THEN "sample" ELSE "returned"
    /\ steps' = <<>>
    /\ UNCHANGED <<now, files, interval, duration, out_dir, cpu_thr, mem_thr, disk_thr,
                   top_n, top_by, out_path, end_ts, m, alert, stdout, started, log0,
                   iters, written, top, rep, cli>>

\* line 62, the provider reading one of rs and enumerating one of its
SampleOf(rs, its) ==
    /\ pc = "sample"
    /\ TotalLines(files) < MaxLines
    /\ \E r \in rs, iter \in its :
          m' = Some(CollectMetrics(now, r[1], r[2], r[3], iter, top_n, top_by))
    /\ iters' = iters + 1
    /\ steps' = Append(steps, "Sampling")
    /\ pc' = Successor("sample")
    /\ UNCHANGED <<now, files, interval, duration, out_dir, cpu_thr, mem_thr, disk_thr,
                   top_n, top_by, out_path, end_ts, alert, stdout, started, log0,
                   written, top, rep, cli>>

\* in the collector over time the provider reads one of two triples
Sample == SampleOf({<<85, 85, 90>>, <<90, 80, 80>>}, {<<CHOOSE i \in Infos : i.pid = 1>>})

SampleAny == SampleOf(Readings, RunIters)

\* lines 65-66
Persist ==
    /\ pc = "persist"
    /\ files' = [files EXCEPT ![Get(out_path)] = AppendLine(@, LineOf(Get(m)))]
    /\ written' = [written EXCEPT ![Get(out_path)] =
                       Append(@, [sample |-> Get(m), started |-> started])]
    /\ steps' = Append(steps, "Persisting")
    /\ pc' = Successor("persist")
    /\ UNCHANGED <<now, interval, duration, out_dir, cpu_thr, mem_thr, disk_thr, top_n,
                   top_by, out_path, end_ts, m, alert, stdout, started, log0, iters,
                   top, rep, cli>>

\* lines 69-73
Evaluate ==
    /\ pc = "evaluate"
    /\ alert' = Some(Alert(Get(m), cpu_thr, mem_thr, disk_thr))
    /\ steps' = Append(steps, "Evaluating")
    /\ pc' = Successor("evaluate")
    /\ UNCHANGED <<now, files, interval, duration, out_dir, cpu_thr, mem_thr, disk_thr,
                   top_n, top_by, out_path, end_ts, m, stdout, started, log0, iters,
                   written, top, rep, cli>>

\* lines 75-78
Report ==
    /\ pc = "report"
    /\ stdout' = Append(stdout, [tag |-> IF Get(alert) THEN "warning" ELSE "info",
                                 sample |-> Get(m)])
    /\ steps' = Append(steps, "Reporting")
    /\ pc' = Successor("report")
    /\ UNCHANGED <<now, files, interval, duration, out_dir, cpu_thr, mem_thr, disk_thr,
                   top_n, top_by, out_path, end_ts, m, alert, started, log0, iters,
                   written, top, rep, cli>>

\* line 80: time.sleep(interval) returns no sooner than interval seconds later
Sleep ==
    /\ pc = "sleep"
    /\ now + interval <= LastClock + MaxInterval
    /\ now' = now + interval
    /\ steps' = Append(steps, "Sleeping")
    /\ pc' = Successor("sleep")
    /\ UNCHANGED <<files, interval, duration, out_dir, cpu_thr, mem_thr, disk_thr, top_n,
                   top_by, out_path, end_ts, m, alert, stdout, started, log0, iters,
                   written, top, rep, cli>>

\* the clock advances by a second, at any point of the program
Elapse ==
    /\ now < LastClock
    /\ now' = now + 1
    /\ UNCHANGED <<files, pc, interval, duration, out_dir, cpu_thr, mem_thr, disk_thr,
                   top_n, top_by, out_path, end_ts, m, alert, stdout, started, log0,
                   iters, steps, written, top, rep, cli>>

TopIdle == [pc |-> "unused"]
RepIdle == [pc |-> "unused"]
CliIdle == [pc |-> "unused"]

InitRun ==
    /\ now = FirstClock
    /\ files = [p \in Paths |-> <<>>]
    /\ pc = "idle"
    /\ interval = DefaultInterval
    /\ duration = DefaultDuration
    /\ out_dir = "output"
    /\ cpu_thr = DefaultCpuThr
    /\ mem_thr = DefaultMemThr
    /\ disk_thr = DefaultDiskThr
    /\ top_n = DefaultTopN
    /\ top_by = "cpu"
    /\ out_path = None
    /\ end_ts = 0
    /\ m = None
    /\ alert = None
    /\ stdout = <<>>
    /\ started = 0
    /\ log0 = files
    /\ iters = 0
    /\ steps = <<>>
    /\ written = [p \in Paths |-> <<>>]

Init ==
    /\ InitRun
    /\ top = TopIdle
    /\ rep = RepIdle
    /\ cli = CliIdle

Next ==
    \/ RunCall
    \/ ComputeEnd
    \/ Check
    \/ Sample
    \/ Persist
    \/ Evaluate
    \/ Report
    \/ Sleep
    \/ Elapse

\* the collector over time: any number of calls of run(), the clock free
Spec == Init /\ [][Next]_vars

NextTick ==
    \/ RunOnce
    \/ ComputeEnd
    \/ Check
    \/ SampleAny
    \/ Persist
    \/ Evaluate
    \/ Report
    \/ Sleep

\* the collector over its inputs: one call of run(), any reading in each tick
SpecTick == Init /\ [][NextTick]_vars

----------------------------------------------------------------------------
(* main.get_top_processes on its own. *)

TopCalls(maxProcs, maxN) ==
    {[pc |-> "call", iter |-> it, n |-> n, by |-> by, result |-> None] :
        it \in SeqsUpTo(Infos, maxProcs), n \in 0..maxN, by \in {"cpu", "mem", "CPU"}}

InitTop ==
    /\ InitRun
    /\ top \in TopCalls(MaxProcs, MaxTopN)
    /\ rep = RepIdle
    /\ cli = CliIdle

\* get_top_processes(n, by) with the provider enumerating top.iter
TopReturn ==
    /\ top.pc = "call"
    /\ top' = [top EXCEPT !.pc = "done",
                          !.result = Some(GetTopProcesses(top.iter, top.n, top.by))]
    /\ UNCHANGED runVars
    /\ UNCHANGED <<rep, cli>>

NextTop == TopReturn

SpecTop == InitTop /\ [][NextTop]_vars

----------------------------------------------------------------------------
(* report.summarize, report.summarize_processes and report.main. *)

RECURSIVE SumSeq(_)
SumSeq(xs) == IF xs = <<>> THEN 0 ELSE xs[1] + SumSeq(Tail(xs))

\* max(xs)
RECURSIVE MaxSeq(_)
MaxSeq(xs) ==
    IF Len(xs) = 1 THEN xs[1]
    ELSE LET rest == MaxSeq(Tail(xs))
         IN  IF rest > xs[1] THEN rest ELSE xs[1]

\* xs.index(x): the first position holding x, counted from 1
LastIndexOf(xs, x) ==
    CHOOSE i \in DOMAIN xs : xs[i] = x /\ \A i2 \in DOMAIN xs : xs[i2] = x => i2 <= i
IndexOf(xs, x) ==
    CHOOSE i \in DOMAIN xs : xs[i] = x /\ \A i2 \in DOMAIN xs : xs[i2] = x => i <= i2

\* round(mean(xs), 2), in hundredths of a percent
RoundedMean(xs) == (200 * SumSeq(xs) + Len(xs)) \div (2 * Len(xs))

\* report.summarize on the content of the file at path; {} is the empty dict
Summarize(content) ==
    LET rows == LoadJsonl(content)
        cpu == [i \in DOMAIN rows |-> rows[i].cpu_percent]
        mem == [i \in DOMAIN rows |-> rows[i].mem_percent]
        disk == [i \in DOMAIN rows |-> rows[i].disk_percent]
        ts_utc == [i \in DOMAIN rows |-> ParseTimestampUtc(rows[i].timestamp)]
        cpu_max == MaxSeq(cpu)
        mem_max == MaxSeq(mem)
        disk_max == MaxSeq(disk)
        cpu_max_t_utc == ts_utc[IndexOf(cpu, cpu_max)]
        mem_max_t_utc == ts_utc[IndexOf(mem, mem_max)]
        disk_max_t_utc == ts_utc[IndexOf(disk, disk_max)]
    IN  IF rows = <<>> THEN None
        ELSE Some([count |-> Len(rows),
                   cpu_avg |-> RoundedMean(cpu),
                   cpu_max |-> cpu_max,
                   cpu_max_time_utc |-> Isoformat(cpu_max_t_utc),
                   cpu_max_time_kst |-> Isoformat(AstimezoneKst(cpu_max_t_utc)),
                   mem_avg |-> RoundedMean(mem),
                   mem_max |-> mem_max,
                   mem_max_time_utc |-> Isoformat(mem_max_t_utc),
                   mem_max_time_kst |-> Isoformat(AstimezoneKst(mem_max_t_utc)),
                   disk_avg |-> RoundedMean(disk),
                   disk_max |-> disk_max,
                   disk_max_time_utc |-> Isoformat(disk_max_t_utc),
                   disk_max_time_kst |-> Isoformat(AstimezoneKst(disk_max_t_utc))])

\* every process dict of every row, in file order; rows whose "processes" is
\* null contribute nothing here (the loop raises on them, see ProcessesRaises)
RECURSIVE AllProcesses(_)
AllProcesses(rows) ==
    IF rows = <<>> THEN <<>>
    ELSE (IF rows[1].processes = None THEN <<>> ELSE Get(rows[1].processes))
         \o AllProcesses(Tail(rows))

\* the dict data of summarize_processes after its loops, lines 27-34
RECURSIVE Accumulate(_, _)
Accumulate(data, ps) ==
    IF ps = <<>> THEN data
    ELSE LET p == ps[1]
             name == IF p.name = "" THEN "unknown" ELSE p.name
             old == IF name \in DOMAIN data THEN data[name]
                    ELSE [cpu |-> <<>>, mem |-> <<>>, count |-> 0]
             entry == [cpu |-> Append(old.cpu, p.cpu),
                       mem |-> Append(old.mem, p.mem),
                       count |-> old.count + 1]
         IN  Accumulate([k \in DOMAIN data \cup {name} |->
                             IF k = name THEN entry ELSE data[k]], Tail(ps))

\* for p in row.get("processes", []) raises TypeError when the value is None
ProcessesRaises(content) ==
    \E i \in DOMAIN LoadJsonl(content) : LoadJsonl(content)[i].processes = None

\* report.summarize_processes: builds data and ends without a return statement,
\* so the call evaluates to None
SummarizeProcesses(content) ==
    LET data == Accumulate(<<>>, AllProcesses(LoadJsonl(content)))
    IN  None

\* report.plot: the path of the figure, None without rows
Plot(content, date, tz) ==
    IF LoadJsonl(content) = <<>> THEN None
    ELSE Some(<<"reports", date, IF Lower(tz) = "utc" THEN "-utc" ELSE "-kst">>)

\* the readings and process lists of the logs the report is run on
ReportReadings == {<<10, 20, 95>>, <<95, 10, 20>>, <<20, 95, 10>>}
ReportIters == {<<>>, <<CHOOSE i \in Infos : i.pid = 1>>, <<CHOOSE i \in Infos : i.pid = 2>>}
ReportTopN == {0, 1}

\* the samples the collector can take at a given second
ReportSamples(clock) ==
    {CollectMetrics(clock, r[1], r[2], r[3], it, n, "cpu") :
        r \in ReportReadings, it \in ReportIters, n \in ReportTopN}

InitReport ==
    /\ InitRun
    /\ top = TopIdle
    /\ cli = CliIdle
    /\ \E e \in BOOLEAN :
          rep = [pc |-> "start", exists |-> e, content |-> <<>>, date |-> StrfDate(Utcnow(now)),
                 summary |-> None, figs |-> <<>>, proc_items |-> None, printed |-> <<>>]

\* before the report is run, the collector leaves one more line in the log,
\* one sample a second
RepLogGrows ==
    /\ rep.pc = "start"
    /\ Len(rep.content) < MaxRows
    /\ \E sample \in ReportSamples(FirstClock + Len(rep.content)) :
          rep' = [rep EXCEPT !.exists = TRUE,
                             !.content = AppendLine(@, LineOf(sample))]
    /\ UNCHANGED runVars
    /\ UNCHANGED <<top, cli>>

\* lines 165-173: the input file is missing, or holds no row, or is summarized
RepSummarize ==
    /\ rep.pc = "start"
    /\ rep' = IF ~rep.exists
              THEN [rep EXCEPT !.pc = "done", !.printed = Append(@, "no input file")]
              ELSE LET summary == Summarize(rep.content)
                   IN  IF summary = None
                       THEN [rep EXCEPT !.pc = "done", !.printed = Append(@, "no data")]
                       ELSE [rep EXCEPT !.pc = "plot", !.summary = summary,
                                        !.printed = Append(@, "summary")]
    /\ UNCHANGED runVars
    /\ UNCHANGED <<top, cli>>

\* lines 186-191
RepPlot ==
    /\ rep.pc = "plot"
    /\ LET fig_req == Plot(rep.content, rep.date, "kst")
           fig_kst == Plot(rep.content, rep.date, "kst")
           fig_utc == Plot(rep.content, rep.date, "utc")
       IN  rep' = [rep EXCEPT !.pc = "processes", !.figs = <<fig_req, fig_kst, fig_utc>>,
                              !.printed = IF fig_req # None THEN Append(@, "line charts")
                                          ELSE @]
    /\ UNCHANGED runVars
    /\ UNCHANGED <<top, cli>>

\* lines 193-200
RepProcesses ==
    /\ rep.pc = "processes"
    /\ rep' = IF ProcessesRaises(rep.content)
              THEN [rep EXCEPT !.pc = "TypeError"]
              ELSE LET proc_items == SummarizeProcesses(rep.content)
                   IN  [rep EXCEPT !.pc = "done", !.proc_items = proc_items,
                                   !.printed = Append(@, IF proc_items # None /\ proc_items # {<<>>}
                                                         THEN "process summary"
                                                         ELSE "no process data")]
    /\ UNCHANGED runVars
    /\ UNCHANGED <<top, cli>>

NextReport ==
    \/ RepLogGrows
    \/ RepSummarize
    \/ RepPlot
    \/ RepProcesses

SpecReport == InitReport /\ [][NextReport]_vars

----------------------------------------------------------------------------
(* main.main: arguments, configuration and the call of run(). *)

\* argparse results: the defaults of lines 86-90 or a value given on the command line
CliArgs ==
    [interval : {DefaultInterval, 1}, duration : {DefaultDuration, 0},
     out_dir : {"output"}, top_n : {DefaultTopN, 0}, top_by : {"cpu", "mem"}]

\* load_config results: each key absent (None) or present
Configs ==
    [interval : {None, Some(2)}, duration : {None, Some(1)}, out_dir : {None, Some("data")},
     cpu_threshold : {None, Some(50)}, mem_threshold : {None, Some(60)},
     disk_threshold : {None, Some(70)}]

\* cfg.get(key, default)
CfgGet(cfg, key, default) == IF cfg[key] = None THEN default ELSE Get(cfg[key])

InitMain ==
    /\ InitRun
    /\ top = TopIdle
    /\ rep = RepIdle
    /\ cli = [pc |-> "start"]

\* line 95
ParseArgs ==
    /\ cli.pc = "start"
    /\ \E a \in CliArgs : cli' = [pc |-> "load_config", args |-> a]
    /\ UNCHANGED runVars
    /\ UNCHANGED <<top, rep>>

\* line 96
LoadConfig ==
    /\ cli.pc = "load_config"
    /\ \E c \in Configs : cli' = [pc |-> "resolve", args |-> cli.args, cfg |-> c]
    /\ UNCHANGED runVars
    /\ UNCHANGED <<top, rep>>

\* lines 97-102: the locals of main
Resolve ==
    /\ cli.pc = "resolve"
    /\ cli' = [pc |-> "call", args |-> cli.args, cfg |-> cli.cfg,
               interval |-> CfgGet(cli.cfg, "interval", cli.args.interval),
               duration |-> CfgGet(cli.cfg, "duration", cli.args.duration),
               out_dir |-> CfgGet(cli.cfg, "out_dir", cli.args.out_dir),
               cpu_thr |-> CfgGet(cli.cfg, "cpu_threshold", DefaultCpuThr),
               mem_thr |-> CfgGet(cli.cfg, "mem_threshold", DefaultMemThr),
               disk_thr |-> CfgGet(cli.cfg, "disk_threshold", DefaultDiskThr)]
    /\ UNCHANGED runVars
    /\ UNCHANGED <<top, rep>>

\* line 104: run() is entered with the command-line values and its own
\* defaults for the thresholds
CallRun ==
    /\ cli.pc = "call"
    /\ pc = "idle"
    /\ Enter(cli.args.interval, cli.args.duration, cli.args.out_dir,
             DefaultCpuThr, DefaultMemThr, DefaultDiskThr, cli.args.top_n, cli.args.top_by)
    /\ cli' = [cli EXCEPT !.pc = "running"]
    /\ UNCHANGED <<top, rep>>

NextMain ==
    \/ ParseArgs
    \/ LoadConfig
    \/ Resolve
    \/ CallRun

SpecMain == InitMain /\ [][NextMain]_vars

----------------------------------------------------------------------------
(* The claims. *)

Metrics == {"cpu_percent", "mem_percent", "disk_percent"}
ThresholdOf(k) ==
    CASE k = "cpu_percent" -> cpu_thr [] k = "mem_percent" -> mem_thr [] k = "disk_percent" -> disk_thr
Evaluated == \E i \in DOMAIN steps : steps[i] = "Evaluating"

\* C1: once the verdict of a tick is computed, it is true exactly when at
\* least one of cpu_percent, mem_percent, disk_percent of the tick's sample is
\* strictly greater than its own threshold; a metric equal to its threshold
\* does not cause an alert.
C1_AlertIffStrictlyAbove ==
    Evaluated =>
        /\ Get(alert) = TRUE <=> \E k \in Metrics : Get(m)[k] > ThresholdOf(k)
        /\ (\A k \in Metrics : Get(m)[k] <= ThresholdOf(k)) => Get(alert) = FALSE

\* a tick whose cpu reading equals the cpu threshold, with no alert
C1_Witness ==
    /\ Evaluated
    /\ Get(m).cpu_percent = cpu_thr
    /\ Get(m).mem_percent = mem_thr
    /\ Get(alert) = FALSE

\* C2: a call of run() with duration = 0 takes no sample and appends no
\* record, from its entry to its return: the loop condition is tested before
\* the first sample.
C2_ZeroDurationNoIteration ==
    (pc # "idle" /\ duration = 0) =>
        /\ pc \in {"end_ts", "check", "returned"}
        /\ iters = 0
        /\ m = None
        /\ files = log0

\* a call with duration 0 has returned, the clock having moved on since its entry
C2_Witness ==
    /\ pc = "returned"
    /\ duration = 0
    /\ interval = MaxInterval
    /\ now > end_ts
    /\ TotalLines(files) > 0

\* C3: the log is append-only: in every step each file's content is a prefix
\* of its content after the step, and the step that writes a tick's record
\* adds exactly one line while every other step adds none.
C3_AppendOnly ==
    [][/\ \A p \in Paths : IsPrefix(files[p], files'[p])
       /\ TotalLines(files') =
             TotalLines(files) + (IF pc = "persist" /\ pc' # "persist" THEN 1 ELSE 0)]_vars

\* a later call of run() has appended to the file an earlier call left behind
C3_Witness ==
    \E p \in Paths :
        /\ Len(log0[p]) = 1
        /\ Len(files[p]) = 2
        /\ IsPrefix(log0[p], files[p])

\* C4 as stated: every record of the file metrics-<D> has a timestamp whose
\* UTC date is D.
C4_RecordsOfOneDay ==
    \A p \in Paths : \A i \in DOMAIN files[p] :
        DateOf(LoadJsonl(files[p])[i].timestamp) = p[2]

\* C4 as amended: every record of the file metrics-<D> was appended by a call
\* of run() that began on UTC date D, and its timestamp is of date D or later.
C4_RecordsOfRunsStartedThatDay ==
    \A p \in Paths :
        /\ Len(written[p]) = Len(files[p])
        /\ \A i \in DOMAIN files[p] :
              /\ written[p][i].started = p[2]
              /\ DateOf(LoadJsonl(files[p])[i].timestamp) >= p[2]

\* a file named for one day holds a record of the next day
C4_Witness ==
    \E p \in Paths : \E i \in DOMAIN files[p] :
        /\ written[p][i].started = p[2]
        /\ DateOf(LoadJsonl(files[p])[i].timestamp) = p[2] + 1

\* C5: the result of get_top_processes is the first top_n entries of the whole
\* enumerated list sorted descending by the rank key: a list, never None, of
\* min(top_n, number of processes) entries.
C5_TopNOfSortedList ==
    top.pc = "done" =>
        LET all == [i \in DOMAIN top.iter |-> Snapshot(top.iter[i])]
            key == IF Lower(top.by) = "cpu" THEN "cpu" ELSE "mem"
            expected == SliceTo(SortDesc(all, key), top.n)
        IN  /\ Get(top.result) # None
            /\ Get(top.result) = Some(expected)
            /\ Len(Get(Get(top.result))) = Min(top.n, Len(top.iter))

\* the mapping C6 describes: one entry per process name, its count and means
ExpectedProcessSummary(rows) ==
    LET ps == AllProcesses(rows)
        names == {ps[i].name : i \in DOMAIN ps}
        of(name) == SelectSeq(ps, LAMBDA q : q.name = name)
    IN  [name \in names |->
            [cpu_avg |-> RoundedMean([i \in DOMAIN of(name) |-> of(name)[i].cpu]),
             mem_avg |-> RoundedMean([i \in DOMAIN of(name) |-> of(name)[i].mem]),
             count |-> Len(of(name))]]

\* C6: for a log that holds process data, summarize_processes returns the
\* mapping from each process name to its count and mean cpu and mem, and the
\* report prints the process summary.
C6_ProcessSummary ==
    (rep.pc = "done" /\ rep.summary # None /\ AllProcesses(LoadJsonl(rep.content)) # <<>>) =>
        /\ rep.proc_items = Some(ExpectedProcessSummary(LoadJsonl(rep.content)))
        /\ rep.printed[Len(rep.printed)] = "process summary"

\* C7: run() is entered from main() with the configuration's interval,
\* duration, out_dir and thresholds where the key is present, and with the
\* command-line value or the default where it is absent.
C7_ConfigurationWins ==
    cli.pc = "running" =>
        /\ interval = (IF cli.cfg.interval # None THEN Get(cli.cfg.interval) ELSE cli.args.interval)
        /\ duration = (IF cli.cfg.duration # None THEN Get(cli.cfg.duration) ELSE cli.args.duration)
        /\ out_dir = (IF cli.cfg.out_dir # None THEN Get(cli.cfg.out_dir) ELSE cli.args.out_dir)
        /\ cpu_thr = (IF cli.cfg.cpu_threshold # None THEN Get(cli.cfg.cpu_threshold) ELSE DefaultCpuThr)
        /\ mem_thr = (IF cli.cfg.mem_threshold # None THEN Get(cli.cfg.mem_threshold) ELSE DefaultMemThr)
        /\ disk_thr = (IF cli.cfg.disk_threshold # None THEN Get(cli.cfg.disk_threshold) ELSE DefaultDiskThr)

SummaryFields ==
    {<<"cpu_percent", "cpu_max", "cpu_max_time_utc">>,
     <<"mem_percent", "mem_max", "mem_max_time_utc">>,
     <<"disk_percent", "disk_max", "disk_max_time_utc">>}

\* C8: the summary of a non-empty log has count = the number of records and,
\* for each of cpu, mem and disk, the largest value of the log as maximum and,
\* as the maximum's time, the timestamp of the first record that attains it.
C8_MaxAndFirstOccurrence ==
    rep.summary # None =>
        LET rows == LoadJsonl(rep.content)
            s == Get(rep.summary)
        IN  /\ rows # <<>>
            /\ s.count = Len(rep.content)
            /\ \A f \in SummaryFields :
                  /\ \A i \in DOMAIN rows : rows[i][f[1]] <= s[f[2]]
                  /\ \E i \in DOMAIN rows :
                        /\ rows[i][f[1]] = s[f[2]]
                        /\ \A i2 \in 1..(i - 1) : rows[i2][f[1]] < s[f[2]]
                        /\ s[f[3]].date = rows[i].timestamp.date
                        /\ s[f[3]].time = rows[i].timestamp.time

\* cpu readings 10, 95, 95 at t0, t1, t2: cpu_max is 95 and its time is t1
C8_Witness ==
    /\ rep.summary # None
    /\ LET rows == LoadJsonl(rep.content)
       IN  /\ Len(rows) = 3
           /\ rows[1].cpu_percent = 10
           /\ rows[2].cpu_percent = 95
           /\ rows[3].cpu_percent = 95
           /\ Get(rep.summary).cpu_max = 95
           /\ Get(rep.summary).cpu_max_time_utc.time = rows[2].timestamp.time
           /\ rows[2].timestamp.time # rows[3].timestamp.time

\* C9: reading a log with load_jsonl gives exactly the samples that the write
\* step appended to it, with the same field values and in the order written.
C9_RoundTrip ==
    \A p \in Paths :
        LoadJsonl(files[p]) = [i \in DOMAIN written[p] |-> written[p][i].sample]

\* a log of two records, one with a process list and one whose processes is None
C9_Witness ==
    \E p \in Paths :
        /\ Len(files[p]) = 2
        /\ Len(LoadJsonl(files[p])) = 2
        /\ \E i, i2 \in DOMAIN written[p] :
              /\ written[p][i].sample.processes = None
              /\ written[p][i2].sample.processes # None
              /\ Get(written[p][i2].sample.processes) # <<>>

StepsAsClaimed == <<"Sampling", "Evaluating", "Persisting", "Reporting", "Sleeping">>
StepsOfCode == <<"Sampling", "Persisting", "Evaluating", "Reporting", "Sleeping">>

====
